---- MODULE Spec2Model ----
(***************************************************************************)
(* Model of scraper.py: the extraction pipeline of the King County         *)
(* restaurant-inspection scraper (clean_data, extract_restaurant_metadata, *)
(* is_inspection_row, extract_score_data, generate_results, get_geojson,   *)
(* sort_ and the __main__ driver loop).                                    *)
(*                                                                         *)
(* Text is a sequence of one-character strings, so that str.strip,         *)
(* str.lower, `in`, str.startswith, " ".join and int() are computed        *)
(* character by character as Python computes them.                         *)
(*                                                                         *)
(* A parsed listing is a tag tree of the one documented shape: an optional *)
(* tbody whose children are rows, each row a tag with direct td children   *)
(* whose content is text only (no table nested inside a cell).             *)
(***************************************************************************)
EXTENDS Integers, Sequences, FiniteSets, TLC

VARIABLES
    doc,        \* generate_results: listings = extract_data_listing(doc)
    count,      \* generate_results: count (args.num)
    sort,       \* __main__: args.sort
    reverse,    \* __main__: reverse
    pos,        \* generate_results: number of listings the generator consumed
    yielded,    \* records the generator has yielded so far
    features,   \* __main__: total_result['features']
    geocoded,   \* addresses passed to geocoder.google so far
    pc,         \* position of the driver / of the function under call
    arg,        \* argument of the function under call
    ret         \* what the function under call returned or raised

vars == <<doc, count, sort, reverse, pos, yielded, features, geocoded, pc, arg, ret>>
driverVars == <<doc, count, sort, reverse, pos, yielded, features, geocoded>>

(***************************************************************************)
(* Bounds of the model.                                                    *)
(***************************************************************************)
MaxLen == 3         \* longest cell text drawn for clean_data
MaxRows == 3        \* most rows of a drawn listing
MaxListings == 3
MaxFeatures == 3    \* most features of a drawn sort_ input
MaxAddress == 2     \* most entries of a drawn Address list

(***************************************************************************)
(* Text helpers.                                                           *)
(***************************************************************************)
RECURSIVE LStrip(_, _)
\* str.strip(chars), left end: drop leading characters that are in chars
LStrip(s, chars) ==
    IF s # <<>> /\ Head(s) \in chars THEN LStrip(Tail(s), chars) ELSE s

RECURSIVE RStrip(_, _)
\* str.strip(chars), right end: drop trailing characters that are in chars
RStrip(s, chars) ==
    IF s # <<>> /\ s[Len(s)] \in chars
    THEN RStrip(SubSeq(s, 1, Len(s) - 1), chars)
    ELSE s

\* str.strip(chars)
Strip(s, chars) == RStrip(LStrip(s, chars), chars)

\* the argument of data.strip(" \n:-") in clean_data
CleanChars == {" ", "\n", ":", "-"}

\* A td tag as clean_data sees it: td.string is either None or a text.
Td(s) == [isNone |-> FALSE, string |-> s]
TdNone == [isNone |-> TRUE, string |-> <<>>]

\* a clean_data that strips one character from each end only
clean_data_once(td) ==
    IF td.isNone THEN <<>>
    ELSE LET s == td.string
             l == IF s # <<>> /\ Head(s) \in CleanChars THEN Tail(s) ELSE s
         IN  IF l # <<>> /\ l[Len(l)] \in CleanChars
             THEN SubSeq(l, 1, Len(l) - 1) ELSE l

\* clean_data(td): td.string.strip(" \n:-"), u"" when td.string is None
clean_data(td) ==
    IF td.isNone THEN <<>> ELSE Strip(td.string, CleanChars)

(***************************************************************************)
(* Inputs of the clean_data specification.                                 *)
(***************************************************************************)
CleanAlphabet == {" ", "\n", ":", "-", "\t", "a"}

SeqsUpTo(S, n) == UNION {[1..k -> S] : k \in 0..n}

CleanInputs == {TdNone} \cup {Td(s) : s \in SeqsUpTo(CleanAlphabet, MaxLen)}

DriverIdle ==
    /\ doc = <<>> /\ count = 0 /\ sort = "average" /\ reverse = FALSE
    /\ pos = 0 /\ yielded = <<>> /\ features = <<>> /\ geocoded = <<>>

NoRet == [exc |-> "none", val |-> <<>>]
Return(v) == [exc |-> "none", val |-> v]
Raise(e) == [exc |-> e, val |-> <<>>]

InitClean ==
    /\ DriverIdle
    /\ arg \in CleanInputs
    /\ ret = NoRet
    /\ pc = "start"

\* first call of clean_data on a cell
CallClean ==
    /\ pc = "start"
    /\ ret' = Return(clean_data(arg))
    /\ pc' = "cleaned"
    /\ UNCHANGED <<arg, driverVars>>

\* clean_data applied to a cell holding the already-cleaned text
CallCleanAgain ==
    /\ pc = "cleaned"
    /\ arg' = Td(ret.val)
    /\ ret' = Return(clean_data(Td(ret.val)))
    /\ pc' = "recleaned"
    /\ UNCHANGED driverVars

NextClean == CallClean \/ CallCleanAgain

SpecClean == InitClean /\ [][NextClean]_vars

\* C9: clean_data is idempotent (cleaning the already-cleaned text returns it
\* unchanged), the cleaned text neither starts nor ends with one of the
\* stripped characters, and a cell with no text cleans to the empty string.
C9_CleanIdempotent ==
    /\ pc = "recleaned" => ret.val = arg.string
    /\ pc = "cleaned" =>
          /\ arg.isNone => ret.val = <<>>
          /\ ret.val # <<>> =>
                ret.val[1] \notin CleanChars /\ ret.val[Len(ret.val)] \notin CleanChars
    /\ pc # "start" => ret.exc = "none"

\* clean_data has been applied to an already-cleaned text and returned it
C9_Witness ==
    /\ pc = "recleaned"
    /\ arg.string = <<"a">>
    /\ ret.val = <<"a">>


(***************************************************************************)
(* More text helpers: str.lower, `in`, str.startswith, int().              *)
(***************************************************************************)
UpperLetters == <<"A", "B", "C", "D", "E", "F", "G", "H", "I", "J", "K", "L", "M",
                  "N", "O", "P", "Q", "R", "S", "T", "U", "V", "W", "X", "Y", "Z">>
LowerLetters == <<"a", "b", "c", "d", "e", "f", "g", "h", "i", "j", "k", "l", "m",
                  "n", "o", "p", "q", "r", "s", "t", "u", "v", "w", "x", "y", "z">>

LowerChar(c) ==
    IF \E i \in 1..26 : UpperLetters[i] = c
    THEN LowerLetters[CHOOSE i \in 1..26 : UpperLetters[i] = c]
    ELSE c

\* str.lower()
Lower(s) == [i \in 1..Len(s) |-> LowerChar(s[i])]

\* s.startswith(p)
StartsWith(s, p) == Len(s) >= Len(p) /\ SubSeq(s, 1, Len(p)) = p

\* p in s
Contains(s, p) ==
    \E i \in 1..(Len(s) - Len(p) + 1) : SubSeq(s, i, i + Len(p) - 1) = p

WordInspection == <<"i", "n", "s", "p", "e", "c", "t", "i", "o", "n">>

Digits == <<"0", "1", "2", "3", "4", "5", "6", "7", "8", "9">>
IsDigit(c) == \E i \in 1..10 : Digits[i] = c
DigitVal(c) == (CHOOSE i \in 1..10 : Digits[i] = c) - 1

\* the ASCII characters int() strips around the literal: space, tab, newline,
\* vertical tab (written as the character itself), form feed, carriage return.
\* Texts of the model are ASCII; the whitespace and digits outside ASCII that
\* int() accepts as well are outside its alphabet.
PyWhitespace == {" ", "\t", "\n", "", "\f", "\r"}

RECURSIVE DigitsValue(_, _)
\* value of a run of digits and underscores, most significant first
DigitsValue(s, acc) ==
    IF s = <<>> THEN acc
    ELSE IF Head(s) = "_" THEN DigitsValue(Tail(s), acc)
    ELSE DigitsValue(Tail(s), 10 * acc + DigitVal(Head(s)))

\* int(s) for a text s: [ok |-> FALSE] stands for ValueError
PyInt(s) ==
    LET t == Strip(s, PyWhitespace)
        signed == t # <<>> /\ Head(t) \in {"+", "-"}
        body == IF signed THEN Tail(t) ELSE t
        wellFormed ==
            /\ body # <<>>
            /\ IsDigit(body[1]) /\ IsDigit(body[Len(body)])
            /\ \A i \in 1..Len(body) : IsDigit(body[i]) \/ body[i] = "_"
            /\ \A i \in 1..(Len(body) - 1) : ~(body[i] = "_" /\ body[i + 1] = "_")
    IN  IF ~wellFormed THEN [ok |-> FALSE, val |-> 0]
        ELSE [ok |-> TRUE,
              val |-> IF signed /\ Head(t) = "-"
                      THEN 0 - DigitsValue(body, 0) ELSE DigitsValue(body, 0)]

RECURSIVE GCD(_, _)
GCD(a, b) == IF b = 0 THEN a ELSE GCD(b, a % b)

Abs(n) == IF n < 0 THEN 0 - n ELSE n

\* Values of a record (a Python dict of mixed values): a list of texts, a
\* text, or a number. A number is the exact quotient num/den in lowest terms,
\* which is how the float total/float(samples) and the ints compare and sort.
ListVal(l) == [kind |-> "list", list |-> l, text |-> <<>>, num |-> 0, den |-> 1]
StrVal(s) == [kind |-> "str", list |-> <<>>, text |-> s, num |-> 0, den |-> 1]
NumVal(n, d) ==
    LET g == GCD(Abs(n), d)
    IN  [kind |-> "num", list |-> <<>>, text |-> <<>>, num |-> n \div g, den |-> d \div g]

KeyAverageScore == <<"A", "v", "e", "r", "a", "g", "e", " ", "S", "c", "o", "r", "e">>
KeyHighScore == <<"H", "i", "g", "h", " ", "S", "c", "o", "r", "e">>
KeyTotalInspections == <<"T", "o", "t", "a", "l", " ", "I", "n", "s", "p", "e", "c", "t", "i", "o", "n", "s">>
KeyBusinessName == <<"B", "u", "s", "i", "n", "e", "s", "s", " ", "N", "a", "m", "e">>
KeyAddress == <<"A", "d", "d", "r", "e", "s", "s">>

(***************************************************************************)
(* extract_restaurant_metadata                                             *)
(***************************************************************************)
\* has_two_tds(elem): a tr with exactly two direct td children
has_two_tds(elem) == elem.name = "tr" /\ Len(elem.tds) = 2

\* rdata.setdefault(label, []).append(value)
SetDefaultAppend(rdata, label, value) ==
    IF label \in DOMAIN rdata
    THEN [rdata EXCEPT ![label] = Append(@, value)]
    ELSE rdata @@ (label :> <<value>>)

\* a loop body in which every key cell, empty or not, becomes the label
MetadataStep_overwrite(acc, row) ==
    LET new_label == clean_data(row.tds[1])
    IN  [current_label |-> new_label,
         rdata |-> SetDefaultAppend(acc.rdata, new_label, clean_data(row.tds[2]))]

\* one iteration of the loop over metadata_rows
MetadataStep(acc, row) ==
    LET new_label == clean_data(row.tds[1])
        current_label == IF new_label # <<>> THEN new_label ELSE acc.current_label
    IN  [current_label |-> current_label,
         rdata |-> SetDefaultAppend(acc.rdata, current_label, clean_data(row.tds[2]))]

RECURSIVE MetadataLoop(_, _)
MetadataLoop(acc, rows) ==
    IF rows = <<>> THEN acc
    ELSE MetadataLoop(MetadataStep(acc, Head(rows)), Tail(rows))

\* extract_restaurant_metadata(elem): elem.find('tbody') is None for a listing
\* without a tbody, and None.find_all raises AttributeError
extract_restaurant_metadata(elem) ==
    IF ~elem.hasTbody THEN Raise("AttributeError")
    ELSE LET metadata_rows == SelectSeq(elem.rows, has_two_tds)
         IN  Return(MetadataLoop([current_label |-> <<>>, rdata |-> <<>>],
                                 metadata_rows).rdata)

(***************************************************************************)
(* is_inspection_row and extract_score_data                                *)
(***************************************************************************)
\* is_inspection_row(elem): td_children[0] raises IndexError for a tr that has
\* no td child
is_inspection_row(elem) ==
    IF elem.name # "tr" THEN Return(FALSE)
    ELSE IF Len(elem.tds) = 0 THEN Raise("IndexError")
    ELSE LET has_four == Len(elem.tds) = 4
             this_text == Lower(clean_data(elem.tds[1]))
             contains_word == Contains(this_text, WordInspection)
             does_not_start == ~StartsWith(this_text, WordInspection)
         IN  Return(has_four /\ contains_word /\ does_not_start)

\* a loop body that keeps a row that fails to parse in the sample count
ScoreStep_nodecrement(acc, row) ==
    LET p == PyInt(clean_data(row.tds[3]))
    IN  IF ~p.ok THEN acc
        ELSE [samples |-> acc.samples,
              total |-> acc.total + p.val,
              high_score |-> IF p.val > acc.high_score THEN p.val ELSE acc.high_score]

\* a loop body that takes the latest parsed score as the high score
ScoreStep_lasthigh(acc, row) ==
    LET p == PyInt(clean_data(row.tds[3]))
    IN  IF ~p.ok THEN [acc EXCEPT !.samples = @ - 1]
        ELSE [samples |-> acc.samples,
              total |-> acc.total + p.val,
              high_score |-> p.val]

\* one iteration of the loop over inspection_rows
ScoreStep(acc, row) ==
    LET strval == clean_data(row.tds[3])
        p == PyInt(strval)
    IN  IF ~p.ok THEN [acc EXCEPT !.samples = @ - 1]
        ELSE [samples |-> acc.samples,
              total |-> acc.total + p.val,
              high_score |-> IF p.val > acc.high_score THEN p.val ELSE acc.high_score]

RECURSIVE ScoreLoop(_, _)
ScoreLoop(acc, rows) ==
    IF rows = <<>> THEN acc
    ELSE ScoreLoop(ScoreStep(acc, Head(rows)), Tail(rows))

\* extract_score_data(elem): find_all applies is_inspection_row to every tag
\* below elem, so an exception of the filter leaves extract_score_data
extract_score_data(elem) ==
    IF \E i \in 1..Len(elem.rows) : is_inspection_row(elem.rows[i]).exc # "none"
    THEN Raise("IndexError")
    ELSE LET inspection_rows ==
                 SelectSeq(elem.rows, LAMBDA r : is_inspection_row(r).val)
             acc == ScoreLoop([samples |-> Len(inspection_rows),
                               total |-> 0, high_score |-> 0], inspection_rows)
             average == IF acc.samples # 0
                        THEN NumVal(acc.total, acc.samples) ELSE NumVal(0, 1)
         IN  Return((KeyAverageScore :> average)
                    @@ (KeyHighScore :> NumVal(acc.high_score, 1))
                    @@ (KeyTotalInspections :> NumVal(acc.samples, 1)))

(***************************************************************************)
(* Inputs of the extractor specification: listings built from sample rows. *)
(***************************************************************************)
TxtInspectionHeader == <<"I", "n", "s", "p", "e", "c", "t", "i", "o", "n">>
TxtReInspection == <<"R", "e", "-", "I", "n", "s", "p", "e", "c", "t", "i", "o", "n", ":">>
TxtReinspectionLower == <<"-", " ", "r", "e", "-", "i", "n", "s", "p", "e", "c", "t", "i", "o", "n">>
TxtConsult == <<"C", "o", "n", "s", "u", "l", "t", "a", "t", "i", "o", "n">>
TxtBusinessName == <<"-", " ", "B", "u", "s", "i", "n", "e", "s", "s", " ", "N", "a", "m", "e", ":">>
TxtAddress == <<"A", "d", "d", "r", "e", "s", "s", ":">>
TxtBlankKey == <<" ", ":", " ">>
TxtA == <<"A">>
TxtB == <<" ", "B", "\n">>
TxtC == <<"C">>
Txt85 == <<"8", "5">>
\* a vertical tab, 100, a space
Txt100 == <<"", "1", "0", "0", " ">>
TxtNaN == <<"n", "/", "a">>
TxtTabMinus5 == <<"\t", "-", "5">>
TxtDash == <<"-">>

Tag(name, tds) == [name |-> name, tds |-> tds]

RowSamples == {
    Tag("tr", <<Td(TxtBusinessName), Td(TxtA)>>),
    Tag("tr", <<Td(TxtBlankKey), Td(TxtB)>>),
    Tag("tr", <<Td(TxtAddress), Td(TxtC)>>),
    Tag("tr", <<TdNone, TdNone>>),
    Tag("div", <<Td(TxtAddress), Td(TxtA)>>),
    Tag("tr", <<>>),
    Tag("tr", <<Td(TxtInspectionHeader), Td(TxtDash), Td(Txt85), Td(TxtDash)>>),
    Tag("tr", <<Td(TxtReInspection), Td(TxtDash), Td(Txt85), Td(TxtDash)>>),
    Tag("tr", <<Td(TxtReinspectionLower), Td(TxtDash), Td(TxtNaN), Td(TxtDash)>>),
    Tag("tr", <<Td(TxtReInspection), Td(TxtDash), Td(TxtTabMinus5), Td(TxtDash)>>),
    Tag("tr", <<Td(TxtReInspection), Td(TxtDash), Td(Txt100), TdNone>>),
    Tag("tr", <<Td(TxtConsult), Td(TxtDash), Td(Txt85), Td(TxtDash)>>),
    Tag("tr", <<Td(TxtReInspection), Td(Txt85), Td(Txt85)>>) }

\* a listing: whether its table has a tbody, and its rows in document order
Listing(hasTbody, rows) == [hasTbody |-> hasTbody, rows |-> rows]

ListingInputs ==
    {Listing(b, rows) : b \in BOOLEAN, rows \in SeqsUpTo(RowSamples, MaxRows)}

InitExtract ==
    /\ DriverIdle
    /\ arg \in ListingInputs
    /\ ret = NoRet
    /\ pc = "start"

CallMetadata ==
    /\ pc = "start"
    /\ ret' = extract_restaurant_metadata(arg)
    /\ pc' = "metadata"
    /\ UNCHANGED <<arg, driverVars>>

CallScore ==
    /\ pc = "start"
    /\ ret' = extract_score_data(arg)
    /\ pc' = "score"
    /\ UNCHANGED <<arg, driverVars>>

NextExtract == CallMetadata \/ CallScore

SpecExtract == InitExtract /\ [][NextExtract]_vars


(***************************************************************************)
(* Properties of the extractors.                                           *)
(***************************************************************************)
SetMax(S) == CHOOSE x \in S : \A y \in S : y <= x

RECURSIVE SetSum(_, _)
\* sum of f[i] over the indices i in S
SetSum(S, f) ==
    IF S = {} THEN 0
    ELSE LET x == CHOOSE y \in S : TRUE
         IN  f[x] + SetSum(S \ {x}, f)

\* the two-cell rows of a listing's tbody, in document order
TwoCellRows(elem) == SelectSeq(elem.rows, has_two_tds)

\* the label in force at two-cell row i: the cleaned key of the latest row at
\* or before i whose cleaned key is not empty (the empty text if there is none)
LabelInForce(rows, i) ==
    LET J == {j \in 1..i : clean_data(rows[j].tds[1]) # <<>>}
    IN  IF J = {} THEN <<>> ELSE clean_data(rows[SetMax(J)].tds[1])

\* the cleaned values of the rows whose label in force is label, in row order
ValuesUnder(rows, label) ==
    LET idx == SelectSeq([i \in 1..Len(rows) |-> i],
                         LAMBDA i : LabelInForce(rows, i) = label)
    IN  [k \in 1..Len(idx) |-> clean_data(rows[idx[k]].tds[2])]

\* C1: blank-label continuation law. Whenever extract_restaurant_metadata
\* returns, its keys are exactly the labels in force at some two-cell row, and
\* the list under each key holds, in row order, the cleaned values of exactly
\* the rows at which that label is in force; a row with an empty key cell
\* leaves the label in force unchanged.
C1_BlankLabelContinuation ==
    (pc = "metadata" /\ ret.exc = "none") =>
        LET rows == TwoCellRows(arg)
        IN  /\ DOMAIN ret.val = {LabelInForce(rows, i) : i \in 1..Len(rows)}
            /\ \A label \in DOMAIN ret.val :
                   ret.val[label] = ValuesUnder(rows, label)

\* the rows [("Business Name","A"), ("","B"), ("Address","C")] have given
\* {"Business Name": ["A","B"], "Address": ["C"]}
C1_Witness ==
    /\ pc = "metadata"
    /\ arg = Listing(TRUE, <<Tag("tr", <<Td(TxtBusinessName), Td(TxtA)>>),
                             Tag("tr", <<Td(TxtBlankKey), Td(TxtB)>>),
                             Tag("tr", <<Td(TxtAddress), Td(TxtC)>>)>>)
    /\ ret = Return((KeyBusinessName :> <<<<"A">>, <<"B">>>>) @@ (KeyAddress :> <<<<"C">>>>))

\* the four-cell tr rows whose first cell, cleaned and lowercased, contains
\* "inspection" without starting with it
SelectedRows(elem) ==
    {i \in 1..Len(elem.rows) :
        LET r == elem.rows[i]
        IN  /\ r.name = "tr"
            /\ Len(r.tds) = 4
            /\ Contains(Lower(clean_data(r.tds[1])), WordInspection)
            /\ ~StartsWith(Lower(clean_data(r.tds[1])), WordInspection)}

\* the selected rows whose third cell parses as an integer
CountedRows(elem) ==
    {i \in SelectedRows(elem) : PyInt(clean_data(elem.rows[i].tds[3])).ok}

ScoreAt(elem) ==
    [i \in 1..Len(elem.rows) |->
        IF i \in CountedRows(elem) THEN PyInt(clean_data(elem.rows[i].tds[3])).val ELSE 0]

\* C2: whenever extract_score_data returns, Total Inspections is the number of
\* selected rows whose third cell parses as an integer, and Average Score is
\* the sum of those parsed values divided by Total Inspections, or 0 when
\* Total Inspections is 0; header rows and unparsable rows add nothing.
C2_TotalAndAverage ==
    (pc = "score" /\ ret.exc = "none") =>
        LET n == Cardinality(CountedRows(arg))
            sum == SetSum(CountedRows(arg), ScoreAt(arg))
        IN  /\ ret.val[KeyTotalInspections] = NumVal(n, 1)
            /\ ret.val[KeyAverageScore] = IF n > 0 THEN NumVal(sum, n) ELSE NumVal(0, 1)

\* a header row, a row scoring 85 and an unparsable row have given
\* Total Inspections = 1 and Average Score = 85.0
C2_Witness ==
    /\ pc = "score"
    /\ arg.rows = <<Tag("tr", <<Td(TxtInspectionHeader), Td(TxtDash), Td(Txt85), Td(TxtDash)>>),
                    Tag("tr", <<Td(TxtReInspection), Td(TxtDash), Td(Txt85), Td(TxtDash)>>),
                    Tag("tr", <<Td(TxtReinspectionLower), Td(TxtDash), Td(TxtNaN), Td(TxtDash)>>)>>
    /\ ret.exc = "none"
    /\ ret.val[KeyTotalInspections] = NumVal(1, 1)
    /\ ret.val[KeyAverageScore] = NumVal(85, 1)

\* C10: whenever extract_score_data returns, High Score is the maximum of 0
\* and the parsed scores of the selected rows: never below 0, 0 when no row
\* parses or every parsed score is negative, unchanged by unparsable rows.
C10_HighScoreClampedMax ==
    (pc = "score" /\ ret.exc = "none") =>
        LET scores == {ScoreAt(arg)[i] : i \in CountedRows(arg)}
        IN  ret.val[KeyHighScore] = NumVal(SetMax(scores \cup {0}), 1)

\* a listing whose only parsed score is negative reports High Score 0
C10_Witness ==
    /\ pc = "score"
    /\ ret.exc = "none"
    /\ arg.rows = <<Tag("tr", <<Td(TxtReInspection), Td(TxtDash), Td(TxtTabMinus5), Td(TxtDash)>>)>>
    /\ ret.val[KeyHighScore] = NumVal(0, 1)
    /\ ret.val[KeyAverageScore] = NumVal(0 - 5, 1)

\* C8: structural absence is an empty result, not a crash. A listing without
\* a tbody gives an empty MetadataMap, a listing holding a tr without cells
\* still gives a ScoreSummary, and neither extractor raises.
C8_NoCrashOnStructuralAbsence ==
    /\ pc = "metadata" => (ret.exc = "none" /\ (~arg.hasTbody => DOMAIN ret.val = {}))
    /\ pc = "score" => ret.exc = "none"

\* C8, first half alone: a listing without a tbody gives an empty MetadataMap
C8_NoTbodyEmptyMap ==
    (pc = "metadata" /\ ~arg.hasTbody) => (ret.exc = "none" /\ DOMAIN ret.val = {})

\* C8, second half alone: a tr without cells is skipped by extract_score_data
C8_CellLessRowSkipped ==
    pc = "score" => ret.exc = "none"


(***************************************************************************)
(* get_geojson                                                             *)
(***************************************************************************)
RECURSIVE JoinTexts(_)
\* " ".join(list) for a list of texts
JoinTexts(list) ==
    IF list = <<>> THEN <<>>
    ELSE IF Len(list) = 1 THEN list[1]
    ELSE list[1] \o <<" ">> \o JoinTexts(Tail(list))

\* " ".join(val): of a list its texts, of a text its characters
PyJoin(val) ==
    IF val.kind = "list" THEN JoinTexts(val.list)
    ELSE JoinTexts([i \in 1..Len(val.text) |-> <<val.text[i]>>])

\* use_keys
UseKeys == {KeyBusinessName, KeyAverageScore, KeyTotalInspections, KeyHighScore, KeyAddress}

Feature(geometry, properties) ==
    [isNone |-> FALSE, type |-> "Feature", geometry |-> geometry, properties |-> properties]
NoneFeature == [isNone |-> TRUE, type |-> "", geometry |-> <<>>, properties |-> <<>>]

\* get_geojson(result), resp being what geocoder.google(address).geojson holds:
\* its geometry and its properties' address (empty when it has none).
\* Returns the feature (or None) and the address sent to the geocoder, if any.
get_geojson(result, resp) ==
    LET address == PyJoin(IF KeyAddress \in DOMAIN result
                          THEN result[KeyAddress] ELSE StrVal(<<>>))
        inspection_data ==
            [key \in DOMAIN result \cap UseKeys |->
                IF result[key].kind = "list"
                THEN StrVal(JoinTexts(result[key].list)) ELSE result[key]]
        new_address == resp.address
        properties ==
            IF new_address # <<>>
            THEN (KeyAddress :> StrVal(new_address)) @@ inspection_data
            ELSE inspection_data
    IN  IF address = <<>>
        THEN [called |-> FALSE, query |-> <<>>, feature |-> NoneFeature]
        ELSE [called |-> TRUE, query |-> address,
              feature |-> Feature(resp.geometry, properties)]

TxtNormalized == <<"1", " ", "C", " ", "S", "t">>

\* what the geocoding collaborator may answer: with or without an address
GeocoderResponses ==
    {[geometry |-> <<1, 2>>, address |-> <<>>],
     [geometry |-> <<3, 4>>, address |-> TxtNormalized]}

(***************************************************************************)
(* sort_                                                                   *)
(***************************************************************************)
\* sort_options
SortOptions ==
    ("average" :> KeyAverageScore) @@ ("highscore" :> KeyHighScore)
        @@ ("most" :> KeyTotalInspections)

\* the key function: k['properties'][sort_options.get(sort)]
SortKeyOf(k, sortArg) ==
    IF k.isNone THEN Raise("TypeError")
    ELSE IF sortArg \notin DOMAIN SortOptions THEN Raise("KeyError")
    ELSE IF SortOptions[sortArg] \notin DOMAIN k.properties THEN Raise("KeyError")
    ELSE Return(k.properties[SortOptions[sortArg]])

\* a < b for two numbers
NumLess(a, b) == a.num * b.den < b.num * a.den

Reverse(s) == [i \in 1..Len(s) |-> s[Len(s) + 1 - i]]

\* insert pair x behind every pair of the sorted run whose key is not greater
InsertStable(run, x) ==
    SelectSeq(run, LAMBDA y : ~NumLess(x.key, y.key)) \o <<x>>
        \o SelectSeq(run, LAMBDA y : NumLess(x.key, y.key))

RECURSIVE StableSort(_)
\* the stable ascending sort of list.sort
StableSort(pairs) ==
    IF pairs = <<>> THEN <<>>
    ELSE InsertStable(StableSort(SubSeq(pairs, 1, Len(pairs) - 1)), pairs[Len(pairs)])

\* a sorted() that reverses the ascending result, losing the order of ties
PySorted_reverseresult(items, keys, rev) ==
    LET pairs == [i \in 1..Len(items) |-> [key |-> keys[i], item |-> items[i]]]
        out == IF rev THEN Reverse(StableSort(pairs)) ELSE StableSort(pairs)
    IN  [i \in 1..Len(out) |-> out[i].item]

\* sorted(items, reverse=rev, key=...) with the keys already computed:
\* list.sort reverses the list, sorts it stably, and reverses the result
PySorted(items, keys, rev) ==
    LET pairs == [i \in 1..Len(items) |-> [key |-> keys[i], item |-> items[i]]]
        out == IF rev THEN Reverse(StableSort(Reverse(pairs))) ELSE StableSort(pairs)
    IN  [i \in 1..Len(out) |-> out[i].item]

\* sort_(total_result, sort, reverse): sorted() computes the key of every
\* element in order, and the first key that raises ends the call
sort_(total_result, sortArg, rev) ==
    LET keyOf == [i \in 1..Len(total_result) |-> SortKeyOf(total_result[i], sortArg)]
        failing == {i \in 1..Len(total_result) : keyOf[i].exc # "none"}
    IN  IF failing # {}
        THEN Raise(keyOf[CHOOSE i \in failing : \A j \in failing : i <= j].exc)
        ELSE Return(PySorted(total_result,
                             [i \in 1..Len(total_result) |-> keyOf[i].val], rev))

SortArgs == {"average", "highscore", "most", "bogus"}

SampleFeature(name, avgNum, avgDen, high, total) ==
    Feature(<<1, 2>>,
            (KeyBusinessName :> StrVal(name))
                @@ (KeyAverageScore :> NumVal(avgNum, avgDen))
                @@ (KeyHighScore :> NumVal(high, 1))
                @@ (KeyTotalInspections :> NumVal(total, 1)))

FeatureSamples ==
    {SampleFeature(TxtA, 3, 1, 5, 2),
     SampleFeature(TxtC, 1, 1, 5, 1),
     SampleFeature(<<"B">>, 3, 1, 7, 2),
     SampleFeature(TxtA, 5, 2, 7, 2),
     NoneFeature}

InitSort ==
    /\ DriverIdle
    /\ arg \in [total_result : SeqsUpTo(FeatureSamples, MaxFeatures),
                sort : SortArgs, reverse : BOOLEAN]
    /\ ret = NoRet
    /\ pc = "start"

CallSort ==
    /\ pc = "start"
    /\ ret' = sort_(arg.total_result, arg.sort, arg.reverse)
    /\ pc' = "sorted"
    /\ UNCHANGED <<arg, driverVars>>

NextSort == CallSort

SpecSort == InitSort /\ [][NextSort]_vars

\* C4: sort_ fails, returning nothing, for every sequence of features (the
\* empty one included) when the sort key name is not average, highscore or most.
C4_InvalidSortKeyFails ==
    (pc = "sorted" /\ arg.sort \notin {"average", "highscore", "most"}) =>
        ret.exc # "none"

\* C5: for a recognized sort key and a sequence of GeoFeatures, sort_ returns
\* a permutation of its input, ordered by the chosen property (ascending, or
\* descending when reverse is set), in which the features of equal value keep
\* their input order.
C5_StableSorted ==
    (/\ pc = "sorted"
     /\ arg.sort \in {"average", "highscore", "most"}
     /\ \A i \in 1..Len(arg.total_result) : ~arg.total_result[i].isNone) =>
        LET in == arg.total_result
            out == ret.val
            prop == SortOptions[arg.sort]
            keyval(f) == f.properties[prop]
            same(a, b) == ~NumLess(a, b) /\ ~NumLess(b, a)
        IN  /\ ret.exc = "none"
            /\ Len(out) = Len(in)
            /\ \A p, q \in 1..Len(out) :
                   p < q => IF arg.reverse
                            THEN ~NumLess(keyval(out[p]), keyval(out[q]))
                            ELSE ~NumLess(keyval(out[q]), keyval(out[p]))
            /\ \A i \in 1..Len(in) :
                   SelectSeq(out, LAMBDA f : same(keyval(f), keyval(in[i])))
                       = SelectSeq(in, LAMBDA f : same(keyval(f), keyval(in[i])))

\* features of Average Score 3, 1, 3 sorted by average ascending: the two
\* features of score 3 have kept their input order behind the one of score 1
C5_Witness ==
    /\ pc = "sorted"
    /\ arg.sort = "average" /\ arg.reverse = FALSE
    /\ arg.total_result = <<SampleFeature(TxtA, 3, 1, 5, 2),
                            SampleFeature(TxtC, 1, 1, 5, 1),
                            SampleFeature(<<"B">>, 3, 1, 7, 2)>>
    /\ ret = Return(<<SampleFeature(TxtC, 1, 1, 5, 1),
                      SampleFeature(TxtA, 3, 1, 5, 2),
                      SampleFeature(<<"B">>, 3, 1, 7, 2)>>)

(***************************************************************************)
(* Inputs of the get_geojson specification: records with and without an    *)
(* Address list.                                                           *)
(***************************************************************************)
\* the entries an Address list is drawn from: empty, whitespace, a street
AddressEntries == {<<>>, <<"\t">>, TxtC}

AddressLists == SeqsUpTo(AddressEntries, MaxAddress)

KeyPhone == <<"P", "h", "o", "n", "e">>

SampleScores(total) ==
    (KeyAverageScore :> NumVal(IF total = 0 THEN 0 ELSE 85, 1))
        @@ (KeyHighScore :> NumVal(IF total = 0 THEN 0 ELSE 85, 1))
        @@ (KeyTotalInspections :> NumVal(total, 1))

SampleNames ==
    {<<>>,
     (KeyBusinessName :> ListVal(<<TxtA>>)),
     (KeyBusinessName :> ListVal(<<TxtA, <<"B">>>>)) @@ (KeyPhone :> ListVal(<<Txt85>>))}

RecordInputs ==
    {names @@ SampleScores(t) : names \in SampleNames, t \in 0..1}
    \cup {(KeyAddress :> ListVal(a)) @@ names @@ SampleScores(t) :
             a \in AddressLists, names \in SampleNames, t \in 0..1}

InitGeo ==
    /\ DriverIdle
    /\ arg \in [result : RecordInputs, resp : GeocoderResponses]
    /\ ret = NoRet
    /\ pc = "start"

CallGeojson ==
    /\ pc = "start"
    /\ ret' = Return(get_geojson(arg.result, arg.resp))
    /\ pc' = "geojson"
    /\ UNCHANGED <<arg, driverVars>>

NextGeo == CallGeojson

SpecGeo == InitGeo /\ [][NextGeo]_vars

\* a text that is empty or holds whitespace only
IsBlank(s) == \A i \in 1..Len(s) : s[i] \in PyWhitespace

\* the record has no Address, or an Address list with no entry that is not blank
AddressBlank(result) ==
    KeyAddress \in DOMAIN result =>
        \A i \in 1..Len(result[KeyAddress].list) : IsBlank(result[KeyAddress].list[i])

\* C6: get_geojson returns None, without calling the geocoder, for every
\* record whose Address list is missing, empty, or made of empty or
\* whitespace entries only.
C6_BlankAddressNoFeature ==
    (pc = "geojson" /\ AddressBlank(arg.result)) =>
        (ret.val.feature.isNone /\ ~ret.val.called)


(***************************************************************************)
(* extract_data_listing, generate_results and the __main__ driver loop     *)
(***************************************************************************)
\* re.compile(r'PR[\d]+~').search(id): "PR", one or more digits, "~", anywhere
IdMatches(id) ==
    \E i \in 1..Len(id) : \E j \in (i + 3)..Len(id) :
        /\ id[i] = "P" /\ id[i + 1] = "R" /\ id[j] = "~"
        /\ \A k \in (i + 2)..(j - 1) : IsDigit(id[k])

\* extract_data_listing(html): the div elements whose id matches, in
\* document order
extract_data_listing(html) ==
    SelectSeq(html, LAMBDA div : div.hasId /\ IdMatches(div.id))

Min(a, b) == IF a < b THEN a ELSE b
Max(a, b) == IF a > b THEN a ELSE b

\* a slice that ignores the requested count
PySliceTo_all(l, c) == l

\* l[:c]
PySliceTo(l, c) ==
    IF c >= 0 THEN SubSeq(l, 1, Min(c, Len(l)))
    ELSE SubSeq(l, 1, Max(0, Len(l) + c))

\* the body of the loop of generate_results: the record of one listing, or
\* the exception an extractor raises
MakeRecord(listing) ==
    LET metadata == extract_restaurant_metadata(listing)
        score_data == extract_score_data(listing)
    IN  IF metadata.exc # "none" THEN metadata
        ELSE IF score_data.exc # "none" THEN score_data
        ELSE Return([key \in DOMAIN metadata.val \cup DOMAIN score_data.val |->
                        IF key \in DOMAIN score_data.val
                        THEN score_data.val[key] ELSE ListVal(metadata.val[key])])

IdPR12 == <<"P", "R", "1", "2", "~">>
IdEmbedded == <<"x", "P", "R", "7", "~">>
IdNoDigits == <<"P", "R", "~">>
IdPR3 == <<"P", "R", "3", "~">>
IdPR4 == <<"P", "R", "4", "~">>

\* a div element: its id attribute, if it has one, and its listing content
Div(id, hasTbody, rows) ==
    [hasId |-> TRUE, id |-> id, hasTbody |-> hasTbody, rows |-> rows]
DivNoId(hasTbody, rows) ==
    [hasId |-> FALSE, id |-> <<>>, hasTbody |-> hasTbody, rows |-> rows]

\* the div elements a document is drawn from
DivSamples == {
    \* a restaurant with a name, an address and one inspection
    Div(IdPR12, TRUE,
        <<Tag("tr", <<Td(TxtBusinessName), Td(TxtA)>>),
          Tag("tr", <<Td(TxtAddress), Td(TxtC)>>),
          Tag("tr", <<Td(TxtReInspection), Td(TxtDash), Td(Txt85), Td(TxtDash)>>)>>),
    \* a restaurant without an Address row
    Div(IdEmbedded, TRUE,
        <<Tag("tr", <<Td(TxtBusinessName), Td(TxtB)>>),
          Tag("tr", <<Td(TxtReInspection), Td(TxtDash), Td(Txt100), TdNone>>)>>),
    \* a div whose id does not match
    Div(IdNoDigits, TRUE, <<Tag("tr", <<Td(TxtAddress), Td(TxtC)>>)>>),
    \* a div without an id
    DivNoId(TRUE, <<>>),
    \* a listing whose table has no tbody
    Div(IdPR3, FALSE, <<Tag("tr", <<Td(TxtAddress), Td(TxtC)>>)>>),
    \* a restaurant whose Address rows are two empty cells
    Div(IdPR4, TRUE,
        <<Tag("tr", <<Td(TxtAddress), TdNone>>),
          Tag("tr", <<Td(TxtBlankKey), TdNone>>)>>) }

DriverSortArgs == {"average", "bogus"}

Init ==
    /\ doc \in SeqsUpTo(DivSamples, MaxListings)
    /\ count \in (0 - 1)..MaxListings
    /\ sort \in DriverSortArgs
    /\ reverse \in BOOLEAN
    /\ pos = 0
    /\ yielded = <<>>
    /\ features = <<>>
    /\ geocoded = <<>>
    /\ pc = "loop"
    /\ arg = <<>>
    /\ ret = NoRet

\* the listings generate_results iterates over: listings[:count]
Requested == PySliceTo(extract_data_listing(doc), count)

\* one iteration of the driver loop
LoopIteration ==
    /\ pc = "loop"
    /\ pos < Len(Requested)
    /\ \E made \in {MakeRecord(Requested[pos + 1])} :
          /\ made.exc = "none"
          /\ \E resp \in GeocoderResponses :
                \E geo \in {get_geojson(made.val, resp)} :
                    /\ yielded' = Append(yielded, made.val)
                    /\ features' = Append(features, geo.feature)
                    /\ geocoded' = IF geo.called THEN Append(geocoded, geo.query) ELSE geocoded
    /\ pos' = pos + 1
    /\ UNCHANGED <<doc, count, sort, reverse, pc, arg, ret>>

LoopRaise ==
    /\ pc = "loop"
    /\ pos < Len(Requested)
    /\ \E made \in {MakeRecord(Requested[pos + 1])} :
          /\ made.exc # "none"
          /\ ret' = made
    /\ pc' = "raised_in_loop"
    /\ UNCHANGED <<doc, count, sort, reverse, pos, yielded, features, geocoded, arg>>

LoopEnd ==
    /\ pc = "loop"
    /\ pos = Len(Requested)
    /\ pc' = "sort"
    /\ UNCHANGED <<doc, count, sort, reverse, pos, yielded, features, geocoded, arg, ret>>

SortAndDump ==
    /\ pc = "sort"
    /\ \E sorted \in {sort_(features, sort, reverse)} :
          /\ sorted.exc = "none"
          /\ features' = sorted.val
    /\ pc' = "done"
    /\ UNCHANGED <<doc, count, sort, reverse, pos, yielded, geocoded, arg, ret>>

SortRaise ==
    /\ pc = "sort"
    /\ \E sorted \in {sort_(features, sort, reverse)} :
          /\ sorted.exc # "none"
          /\ ret' = sorted
    /\ pc' = "raised_in_sort"
    /\ UNCHANGED <<doc, count, sort, reverse, pos, yielded, features, geocoded, arg>>

Next == LoopIteration \/ LoopRaise \/ LoopEnd \/ SortAndDump \/ SortRaise

Spec == Init /\ [][Next]_vars

\* C3: for a non-negative count c and a document with N matching listing
\* blocks, the i-th record yielded is the record of the i-th matching listing
\* in page order, never more than min(N, c) records are yielded, and a
\* generator that is exhausted has yielded exactly min(N, c) records.
C3_YieldsFirstMinNCount ==
    count >= 0 =>
        LET listings == extract_data_listing(doc)
            N == Len(listings)
        IN  /\ Len(yielded) <= Min(N, count)
            /\ \A i \in 1..Len(yielded) : Return(yielded[i]) = MakeRecord(listings[i])
            /\ pc \in {"sort", "done", "raised_in_sort"} => Len(yielded) = Min(N, count)

\* a document of three divs, two of them matching listings, asked for one
\* record: the generator is exhausted after the record of the first listing
C3_Witness ==
    /\ pc = "sort"
    /\ Len(doc) = 3
    /\ Len(extract_data_listing(doc)) = 2
    /\ ~IdMatches(doc[1].id)
    /\ count = 1
    /\ Len(yielded) = 1
    /\ Return(yielded[1]) = MakeRecord(doc[2])

\* the record has an Address whose joined text is not empty
HasAddress(result) ==
    KeyAddress \in DOMAIN result /\ PyJoin(result[KeyAddress]) # <<>>

\* C7: features holds exactly one GeoFeature per processed record with a
\* non-empty Address and nothing for a record with an empty address: no None
\* is stored in features or handed to sort_.
C7_NoAbsentFeatureStored ==
    /\ \A i \in 1..Len(features) : ~features[i].isNone
    /\ Len(features) = Cardinality({i \in 1..Len(yielded) : HasAddress(yielded[i])})

====
